---- MODULE Spec2Model ----
(***************************************************************************)
(* Model of ModelicaEnv (openmodelica_microgrid_gym/env/modelica.py): the  *)
(* gym environment that steps an FMU through fixed time slices.            *)
(*                                                                         *)
(* Times are integers (ticks); time_step_size and time_start are drawn     *)
(* from small ranges, so time_start need not be a multiple of the step.    *)
(* Rounding of the floating-point sums is not modelled.                    *)
(* The FMU is modelled by its continuous state x (the amount of simulated  *)
(* time integrated since model.reset()), its time, its inputs and the      *)
(* list of calls the last operation made on it.  The ODE solver and the    *)
(* reward function are external: their outcomes are drawn from small sets. *)
(***************************************************************************)
EXTENDS Integers, Sequences, FiniteSets, TLC

\* ------------------------------------------------------------------ bounds
NegStart == 2        \* time_start is one of -NegStart, 0, MaxStart
MaxStart == 1
MaxStepSize == 2     \* time_step is 1 or MaxStepSize
MaxEpisode == 3      \* max_episode_steps is None, 0, 1, 2 or MaxEpisode
MaxCalls == 4        \* accepted step calls modelled per episode
MaxEvents == 2       \* event iterations the FMU may ask for in _setup_fmu
MaxTrials == 1      \* derivative evaluations of a solver run after the first
MaxMeas == 1         \* length of the measurement vector set by the agent
NumInputs == 2       \* len(model_input)
NumOutputs == 3      \* len(model_output)
NumParams == 1       \* len(model_params)
MaxPatterns == 2     \* glob patterns in a viz_cols list
MaxTmpls == 1        \* PlotTmpl objects in a viz_cols list: none or MaxTmpls

VARIABLES
    time_start,          \* self.time_start
    time_step_size,      \* self.time_step_size
    max_episode_steps,   \* self.max_episode_steps: [none, n]
    time_end,            \* self.time_end: [inf, v]
    viz_mode,            \* self.viz_mode
    viz_cols,            \* the viz_cols argument: [kind, patterns, tmpls, regex]
    viz_col_regex,       \* self.viz_col_regex: the alternatives of the regex
    viz_col_tmpls,       \* len(self.viz_col_tmpls)
    solver_statuses,     \* how a run of solve_ivp may end in this behaviour
    meas_max,            \* longest measurement the agent stores in this behaviour
    sim_time_interval,   \* self.sim_time_interval: [none, t0, t1]
    failed,              \* self._failed
    state,               \* self._state: [n, x]
    measurement,         \* len(self.measurement)
    history,             \* self.history: the lengths of the appended records
    model,               \* the FMU: [time, x, inputs, start]
    calls,               \* calls the last operation made on the FMU, the solver,
                         \* the history and the reward function, in order
    ret,                 \* what the last operation gave its caller
    accepted,            \* step calls since the last reset that integrated
    rewardsSeen,         \* what the step calls since the last reset met
    doneSeen,            \* a step call since the last reset returned done
    rewarded,            \* what reward_fun returned in the last operation
                         \* (NoRewards when the operation did not call it)
    resetFrom            \* the kind of state the last operation, a reset, was
                         \* called in ("" after any other operation)

cfg == <<time_start, time_step_size, max_episode_steps, time_end, viz_mode,
         viz_cols, viz_col_regex, viz_col_tmpls, solver_statuses, meas_max>>
env == <<sim_time_interval, failed, state, measurement, history>>
ghost == <<accepted, rewardsSeen, doneSeen, rewarded, resetFrom>>
vars == <<cfg, env, model, calls, ret, ghost>>

\* ------------------------------------------------------------ value domain
\* floats a reward function can return, and None
Fin(v) == [k |-> "fin", v |-> v]
NaN == [k |-> "nan", v |-> 0]
NegInf == [k |-> "inf", v |-> -1]
PosInf == [k |-> "inf", v |-> 1]
NoneReward == [k |-> "none", v |-> 0]
Rewards == {Fin(1), Fin(-1), NaN, NegInf, PosInf, NoneReward}

\* summary of the step calls of an episode: no reward yet, all rewards the
\* same value r, different rewards, or a step call that raised
NoRewards == [k |-> "unset", v |-> 0]
Mixed == [k |-> "mixed", v |-> 0]
Stray == [k |-> "stray", v |-> 0]
Seen(seen, r) ==
    IF seen = Stray \/ r.k = "none" THEN Stray
    ELSE IF seen = NoRewards \/ seen = r THEN r
    ELSE Mixed

\* the parameter schedule: names of self.model_parameters
model_parameters == 1 .. NumParams

viz_modes == {"episode", "step", "None"}

NoInterval == [none |-> TRUE, t0 |-> 0, t1 |-> 0]
Interval(a, b) == [none |-> FALSE, t0 |-> a, t1 |-> b]

Obs(n, x) == [n |-> n, x |-> x]

Abs(a) == IF a < 0 THEN -a ELSE a

\* an end time one step too late
TimeEnd_oneMore(start, step, mes) ==
    IF mes.none THEN [inf |-> TRUE, v |-> 0]
    ELSE [inf |-> FALSE, v |-> start + (mes.n + 1) * step]

\* time_end of __init__: inf when max_episode_steps is None
TimeEnd(start, step, mes) ==
    IF mes.none THEN [inf |-> TRUE, v |-> 0]
    ELSE [inf |-> FALSE, v |-> start + mes.n * step]

\* ------------------------------------------------------------ column names
\* Strings are sequences of characters.  The columns of the history are the
\* names of model_output: a.i, a.v, b.i, b.v, ...
Letters == <<"a", "b", "c", "d">>

ColumnName(j) ==
    <<Letters[(((j - 1) \div 2) % Len(Letters)) + 1], ".", IF j % 2 = 1 THEN "i" ELSE "v">>

model_output == [j \in 1 .. NumOutputs |-> ColumnName(j)]

\* self.history.structured_cols() for a flat model_output: the names
\* themselves, none of them a list
StructuredCols == model_output

\* ----------------------------------------------------- patterns and regexes
\* A regex is kept as the sequence of its top-level alternatives, an
\* alternative as a sequence of tokens: a literal character, "." (any
\* character) or ".*" (any characters).  The names have no newline in them,
\* so that "." with and without the flag s are the same.
Lit(c) == [t |-> "lit", c |-> c]
AnyChar == [t |-> "dot", c |-> ""]
AnyChars == [t |-> "star", c |-> ""]

\* a translation that takes "?" for a literal question mark
Translate_questionLiteral(pat) ==
    [j \in 1 .. Len(pat) |->
        IF pat[j] = "*" THEN AnyChars ELSE Lit(pat[j])]

\* fnmatch.translate(pat): "*" becomes ".*", "?" becomes ".", any other
\* character of the patterns used here is escaped and stands for itself; the
\* result is wrapped as (?s:...)\Z
Translate(pat) ==
    [j \in 1 .. Len(pat) |->
        IF pat[j] = "*" THEN AnyChars
        ELSE IF pat[j] = "?" THEN AnyChar
        ELSE Lit(pat[j])]

\* '|'.join(patterns): the alternation of the translated patterns; the join
\* of no pattern is the empty regex, one alternative without tokens
Join(res) == IF res = <<>> THEN << <<>> >> ELSE res

\* re.fullmatch of one alternative
RECURSIVE MatchTokens(_, _)
MatchTokens(toks, str) ==
    IF toks = <<>> THEN str = <<>>
    ELSE LET tok == Head(toks)
         IN  IF tok.t = "star"
             THEN \E k \in 0 .. Len(str) :
                      MatchTokens(Tail(toks), SubSeq(str, k + 1, Len(str)))
             ELSE /\ str # <<>>
                  /\ tok.t = "lit" => Head(str) = tok.c
                  /\ MatchTokens(Tail(toks), Tail(str))

\* re.fullmatch(regex, str) is not None
FullMatch(regex, str) == \E k \in 1 .. Len(regex) : MatchTokens(regex[k], str)

\* the viz_cols argument of __init__
NoSelector == [kind |-> "none", patterns |-> <<>>, tmpls |-> 0, regex |-> <<>>]
PatternList(pats, n) == [kind |-> "list", patterns |-> pats, tmpls |-> n, regex |-> <<>>]
RegexString(re) == [kind |-> "regex", patterns |-> <<>>, tmpls |-> 0, regex |-> re]

\* __init__: the regex and the templates kept for render
VizColRegex(vc) ==
    IF vc.kind = "none" THEN <<<<AnyChars>>>>
    ELSE IF vc.kind = "list"
    THEN Join([j \in 1 .. Len(vc.patterns) |-> Translate(vc.patterns[j])])
    ELSE vc.regex

VizColTmpls(vc) == IF vc.kind = "list" THEN vc.tmpls ELSE 0

\* the glob patterns and the selectors the environment is constructed with
Patterns ==
    {<<"*", ".", "i">>, <<"a", ".", "?">>, <<"b", "*">>, <<>>}

RECURSIVE PatternSeqs(_)
PatternSeqs(n) ==
    IF n = 0 THEN {<<>>}
    ELSE LET shorter == PatternSeqs(n - 1)
         IN  shorter \cup {Append(ps, pat) : ps \in shorter, pat \in Patterns}

VizSelectors ==
    {NoSelector, RegexString(<<<<AnyChars, Lit("."), Lit("v")>>>>)}
    \cup {PatternList(ps, n) : ps \in PatternSeqs(MaxPatterns), n \in {0, MaxTmpls}}

\* ------------------------------------------------------------ construction
Statuses == {"ok", "nonconv", "raise"}

\* what render returns: None, or a list of figures, each the plot of a group
\* of columns or of a template
NoFigs == [none |-> TRUE, list |-> <<>>]
Figs(l) == [none |-> FALSE, list |-> l]
ColFig(cols) == [cols |-> cols, tmpl |-> 0]
TmplFig(k) == [cols |-> <<>>, tmpl |-> k]

\* the state __init__ leaves, the arguments being given
Constructed ==
    /\ time_end = TimeEnd(time_start, time_step_size, max_episode_steps)
    /\ viz_col_regex = VizColRegex(viz_cols)
    /\ viz_col_tmpls = VizColTmpls(viz_cols)
    /\ sim_time_interval = NoInterval
    /\ failed = FALSE
    /\ state = Obs(0, 0)
    /\ measurement = 0
    /\ history = <<>>
    /\ model = [time |-> 0, x |-> 0, inputs |-> 0, start |-> 0]
    /\ calls = <<>>
    /\ ret = [op |-> "init", raised |-> FALSE, err |-> "", obs |-> Obs(0, 0),
              reward |-> Fin(0), done |-> FALSE, figs |-> NoFigs]
    /\ accepted = 0
    /\ rewardsSeen = NoRewards
    /\ doneSeen = FALSE
    /\ rewarded = NoRewards
    /\ resetFrom = ""

\* Three families of behaviours: any of the bounded clock configurations with
\* a solver that converges and an agent that stores no measurement; one
\* configuration with a solver that may fail; one configuration with any
\* viz_mode and an agent that stores measurements.  No viz_cols is given.
Init ==
    /\ \/ /\ time_start \in {0 - NegStart, 0, MaxStart}
          /\ time_step_size \in {1, MaxStepSize}
          /\ max_episode_steps \in {[none |-> TRUE, n |-> 0]}
                                   \cup {[none |-> FALSE, n |-> n] : n \in {0, 1, 2, MaxEpisode}}
          /\ viz_mode = "episode"
          /\ solver_statuses = {"ok"}
          /\ meas_max = 0
       \/ /\ time_start = MaxStart
          /\ time_step_size = MaxStepSize
          /\ max_episode_steps = [none |-> FALSE, n |-> MaxEpisode]
          /\ viz_mode = "episode"
          /\ solver_statuses = Statuses
          /\ meas_max = 0
       \/ /\ time_start = 0
          /\ time_step_size = 1
          /\ max_episode_steps = [none |-> FALSE, n |-> MaxEpisode]
          /\ viz_mode \in viz_modes
          /\ solver_statuses = {"ok"}
          /\ meas_max = MaxMeas
    /\ viz_cols = NoSelector
    /\ Constructed

\* behaviours for render: one clock configuration, a solver that converges,
\* no measurement, and any of the selectors
InitRender ==
    /\ time_start = 0
    /\ time_step_size = 1
    /\ max_episode_steps = [none |-> FALSE, n |-> 1]
    /\ viz_mode = "episode"
    /\ solver_statuses = {"ok"}
    /\ meas_max = 0
    /\ viz_cols \in VizSelectors
    /\ Constructed

\* ------------------------------------------------------------------ the FMU
Call(f, a) == [f |-> f, a |-> a, b |-> 0]

Call2(f, a, b) == [f |-> f, a |-> a, b |-> b]

\* the event iteration of _setup_fmu: n rounds until newDiscreteStatesNeeded
\* comes back false
RECURSIVE EventLoop_unforced(_)
EventLoop_unforced(n) ==
    IF n <= 1 THEN <<>>
    ELSE <<Call("enter_event_mode", 0), Call("event_update", 0), Call("get_event_info", 0)>>
         \o EventLoop_unforced(n - 1)

RECURSIVE EventLoop(_)
EventLoop(n) ==
    IF n = 0 THEN <<>>
    ELSE <<Call("enter_event_mode", 0), Call("event_update", 0), Call("get_event_info", 0)>>
         \o EventLoop(n - 1)

\* _setup_fmu: the calls it makes, n being the number of event iterations
SetupFmuCalls(n) ==
    <<Call("setup_experiment", time_start),
      Call("enter_initialization_mode", 0),
      Call("exit_initialization_mode", 0),
      Call("get_event_info", 0)>>
    \o EventLoop(n)
    \o <<Call("enter_continuous_time_mode", 0),
         Call("get_variable_valueref", NumOutputs)>>

\* --------------------------------------------------------------- the solver
\* A run of scipy.integrate.solve_ivp over (t0, t1) from x0: the trial points
\* it hands to _get_deriv (the first is always (t0, x0)), how it ends, and the
\* last column of sol_out.y.  "ok" reaches t1; "nonconv" is status -1, the run
\* gave up without raising and without a successful step, so that the last
\* column is still x0; "raise" is an exception out of the solver or the
\* derivative callback.
Trial(t, x) == [t |-> t, x |-> x]

RECURSIVE TrialSeqs(_, _)
TrialSeqs(pts, n) ==
    IF n = 0 THEN {<<>>}
    ELSE LET shorter == TrialSeqs(pts, n - 1)
         IN  shorter \cup {Append(s, p) : s \in shorter, p \in pts}

SolverRuns(x0, t0, t1) ==
    LET pts == {Trial(t1, x0 + (t1 - t0))}
        trials == {<<Trial(t0, x0)>> \o s : s \in TrialSeqs(pts, MaxTrials)}
        y(st) == IF st = "ok" THEN x0 + (t1 - t0) ELSE x0
    IN  {[status |-> st, trials |-> tr, y |-> y(st)] :
             st \in solver_statuses, tr \in trials}

\* _get_deriv(t, x): sets the FMU's time and continuous states, then asks
\* for the derivatives
GetDerivCalls(tr) ==
    <<Call("set_time", tr.t), Call("set_continuous_states", tr.x), Call("get_derivatives", 0)>>

RECURSIVE DerivCalls(_)
DerivCalls(trs) ==
    IF trs = <<>> THEN <<>> ELSE GetDerivCalls(Head(trs)) \o DerivCalls(Tail(trs))

\* _simulate: read x_0, run the solver over iv, commit the last solution,
\* read the outputs.  Gives what was raised or returned, the FMU afterwards
\* and the calls made.
Simulate(m, iv, sol) ==
    LET last == sol.trials[Len(sol.trials)]
        pre == <<Call("get_continuous_states", m.x), Call2("solve_ivp", iv.t0, iv.t1)>>
               \o DerivCalls(sol.trials)
    IN  IF sol.status = "raise"
        THEN [raised |-> TRUE,
              model |-> [m EXCEPT !.time = last.t, !.x = last.x],
              calls |-> pre,
              obs |-> Obs(0, 0)]
        ELSE [raised |-> FALSE,
              model |-> [m EXCEPT !.time = last.t, !.x = sol.y],
              calls |-> pre \o <<Call("set_continuous_states", sol.y),
                                 Call("get_real", NumOutputs)>>,
              obs |-> Obs(NumOutputs, sol.y)]

\* ------------------------------------------------------------------ is_done
\* an is_done that reads no interval
IsDoneRaises_never(f, iv) == FALSE

\* the property raises when read before the first reset: None[1]
IsDoneRaises(f, iv) == ~f /\ iv.none

\* the time limit compared with >= instead of >
is_done_ge(f, iv, te) ==
    IF f THEN TRUE
    ELSE IF te.inf THEN FALSE
    ELSE Abs(iv.t1) >= te.v

is_done(f, iv, te) ==
    IF f THEN TRUE
    ELSE IF te.inf THEN FALSE
    ELSE Abs(iv.t1) > te.v

\* ------------------------------------------------- the failure expression
\* np.isnan(reward) or np.isinf(reward) and reward < 0 or reward is None;
\* np.isnan(None) raises TypeError before "reward is None" is reached
FailedRaises(r) == r.k = "none"

\* the failure expression without its sign test
FailedExpr_anyInf(r) ==
    \/ r.k = "nan"
    \/ r.k = "inf"
    \/ r.k = "none"

\* the failure expression without its NaN test
FailedExpr_noNaN(r) ==
    \/ (r.k = "inf" /\ r.v < 0)
    \/ r.k = "none"

FailedExpr(r) ==
    \/ r.k = "nan"
    \/ (r.k = "inf" /\ r.v < 0)
    \/ r.k = "none"

Returned(op, obs, reward, done) ==
    [op |-> op, raised |-> FALSE, err |-> "", obs |-> obs, reward |-> reward, done |-> done,
     figs |-> NoFigs]

Raised(op, err) ==
    [op |-> op, raised |-> TRUE, err |-> err, obs |-> Obs(0, 0), reward |-> Fin(0), done |-> FALSE,
     figs |-> NoFigs]

\* a terminal return that reports the episode as still running
TerminalReturn_notDone(st) == Returned("step", st, NegInf, FALSE)

\* what step gives back once the episode is over
TerminalReturn(st) == Returned("step", st, NegInf, TRUE)

\* an arity check that lets longer actions through
ArityOk_atLeast(alen) == alen >= NumInputs

\* len(action) != len(list(self.model_input_names)) raises ValueError
ArityOk(alen) == alen = NumInputs

\* a shift of the end of the interval only
Advance_endOnly(iv) == Interval(iv.t0, iv.t1 + time_step_size)

\* self.sim_time_interval += self.time_step_size
Advance(iv) == Interval(iv.t0 + time_step_size, iv.t1 + time_step_size)

\* the interval reset starts an episode with
ResetInterval == Interval(time_start, time_start + time_step_size)

\* ------------------------------------------------------------- the history
\* self.history.reset(): drops every record
HistoryReset == <<>>

\* self.history.append(record): one more record (kept as its length)
HistoryAppend(h, n) == Append(h, n)

\* ------------------------------------------------- the parameter schedule
\* a schedule evaluated at the end of the interval
ParamTime_end(iv) == iv.t1

\* the time the callables of model_parameters are evaluated at
ParamTime(iv) == iv.t0

\* one evaluation per parameter p, then one model.set with all the values
SetParamCalls(iv) ==
    IF model_parameters = {} THEN <<>>
    ELSE [p \in model_parameters |-> Call2("param", ParamTime(iv), p)]
         \o <<Call("set_params", NumParams)>>

\* -------------------------------------------------------------------- reset
\* the kinds of state an operation can be called in
StateKind ==
    IF sim_time_interval.none THEN "uninitialized"
    ELSE IF failed THEN "failure"
    ELSE IF is_done(failed, sim_time_interval, time_end) THEN "time limit"
    ELSE "running"

\* a reset that forgets the failed flag
FailedAfterReset_kept == failed

\* self._failed = False
FailedAfterReset == FALSE

\* n: event iterations the FMU asks for; sol: the solver run of the first
\* integration.  An exception out of _simulate leaves reset half done.
Reset(n, sol) ==
    LET m0 == [model EXCEPT !.time = time_start, !.x = 0, !.inputs = 0,
                            !.start = time_start]
        sim == Simulate(m0, ResetInterval, sol)
        pre == <<Call("reset", 0), Call("setup_experiment", 0)>> \o SetupFmuCalls(n)
               \o <<Call("history.reset", 0)>>
    IN  /\ sim_time_interval' = ResetInterval
        /\ model' = sim.model
        /\ IF sim.raised
           THEN /\ history' = HistoryReset
                /\ calls' = pre \o sim.calls
                /\ UNCHANGED <<state, measurement, failed>>
                /\ ret' = Raised("reset", "SolverError")
           ELSE /\ history' = HistoryAppend(HistoryReset, sim.obs.n)
                /\ calls' = pre \o sim.calls \o <<Call("history.append", sim.obs.n)>>
                /\ state' = sim.obs
                /\ measurement' = 0
                /\ failed' = FailedAfterReset
                /\ ret' = Returned("reset", sim.obs, Fin(0), FALSE)
        /\ accepted' = 0
        /\ rewardsSeen' = NoRewards
        /\ doneSeen' = FALSE
        /\ rewarded' = NoRewards
        /\ resetFrom' = StateKind
        /\ UNCHANGED cfg

DoReset ==
    \E n \in 1 .. MaxEvents :
        \E sol \in SolverRuns(0, ResetInterval.t0, ResetInterval.t1) :
            Reset(n, sol)

\* --------------------------------------------------------------------- step
\* alen: len(action) (a scalar action is wrapped into a list of length 1);
\* sol: the solver run of this step's integration; r: what reward_fun returns
Step(alen, sol, r) ==
    /\ UNCHANGED cfg
    /\ resetFrom' = ""
    /\ IF IsDoneRaises(failed, sim_time_interval)
       THEN /\ ret' = Raised("step", "TypeError")
            /\ calls' = <<>>
            /\ rewardsSeen' = Stray
            /\ rewarded' = NoRewards
            /\ UNCHANGED <<env, model, accepted, doneSeen>>
       ELSE IF is_done(failed, sim_time_interval, time_end)
       THEN /\ ret' = TerminalReturn(state)
            /\ calls' = <<>>
            /\ doneSeen' = TRUE
            /\ rewarded' = NoRewards
            /\ UNCHANGED <<env, model, accepted, rewardsSeen>>
       ELSE IF ~ArityOk(alen)
       THEN /\ ret' = Raised("step", "ValueError")
            /\ calls' = <<>>
            /\ rewardsSeen' = Stray
            /\ rewarded' = NoRewards
            /\ UNCHANGED <<env, model, accepted, doneSeen>>
       ELSE
         LET iv == sim_time_interval
             push == <<Call("set_inputs", alen)>> \o SetParamCalls(iv)
             sim == Simulate([model EXCEPT !.inputs = alen], iv, sol)
             obs == Obs(sim.obs.n + measurement, sim.obs.x)
             moved == IF ~is_done(failed, iv, time_end) THEN Advance(iv) ELSE iv
         IN  /\ accepted < MaxCalls
             /\ sim.model.x <= (MaxCalls + 1) * time_step_size
             /\ model' = sim.model
             /\ IF sim.raised
                THEN /\ ret' = Raised("step", "SolverError")
                     /\ calls' = push \o sim.calls
                     /\ rewardsSeen' = Stray
                     /\ rewarded' = NoRewards
                     /\ UNCHANGED <<env, accepted, doneSeen>>
                ELSE /\ state' = sim.obs
                     /\ history' = HistoryAppend(history, obs.n)
                     /\ calls' = push \o sim.calls
                                 \o <<Call("history.append", obs.n), Call("reward_fun", obs.n)>>
                     /\ sim_time_interval' = moved
                     /\ accepted' = accepted + 1
                     /\ rewardsSeen' = Seen(rewardsSeen, r)
                     /\ rewarded' = r
                     /\ UNCHANGED measurement
                     /\ IF FailedRaises(r)
                        THEN /\ ret' = Raised("step", "TypeError")
                             /\ UNCHANGED <<failed, doneSeen>>
                        ELSE /\ failed' = FailedExpr(r)
                             /\ ret' = Returned("step", obs, r,
                                                is_done(FailedExpr(r), moved, time_end))
                             /\ doneSeen' = (doneSeen \/ is_done(FailedExpr(r), moved, time_end))

\* the solver and the reward function are only reached by a step call that
\* passes both checks
Integrates(alen) ==
    /\ ~IsDoneRaises(failed, sim_time_interval)
    /\ ~is_done(failed, sim_time_interval, time_end)
    /\ ArityOk(alen)

DoStep ==
    \E alen \in (NumInputs - 1) .. (NumInputs + 1) :
        LET runs == SolverRuns(model.x, sim_time_interval.t0, sim_time_interval.t1)
        IN  IF Integrates(alen)
            THEN \E sol \in runs : \E r \in Rewards : Step(alen, sol, r)
            ELSE Step(alen, CHOOSE sol \in runs : TRUE, Fin(1))

\* ------------------------------------------------------------ render, close
\* one figure per group of columns that has a column matching viz_col_regex
RECURSIVE ColFigs(_)
ColFigs(groups) ==
    IF groups = <<>> THEN <<>>
    ELSE LET cols == SelectSeq(<<Head(groups)>>, LAMBDA col : FullMatch(viz_col_regex, col))
         IN  (IF cols = <<>> THEN <<>> ELSE <<ColFig(cols)>>) \o ColFigs(Tail(groups))

\* one figure per template
TmplFigs == [k \in 1 .. viz_col_tmpls |-> TmplFig(k)]

\* a render that plots whenever the mode is per-episode
RenderFigs_always(close) ==
    IF viz_mode = "None" THEN Figs(<<>>)
    ELSE IF viz_mode = "step" THEN NoFigs
    ELSE Figs(ColFigs(StructuredCols) \o TmplFigs)

\* what render(close=close) returns
RenderFigs(close) ==
    IF viz_mode = "None" THEN Figs(<<>>)
    ELSE IF close
    THEN IF viz_mode = "step" THEN NoFigs
         ELSE Figs(ColFigs(StructuredCols) \o TmplFigs)
    ELSE NoFigs

Render(close) ==
    /\ ret' = [Returned("render", Obs(0, 0), Fin(0), FALSE) EXCEPT !.figs = RenderFigs(close)]
    /\ calls' = <<>>
    /\ rewarded' = NoRewards
    /\ resetFrom' = ""
    /\ UNCHANGED <<cfg, env, model, accepted, rewardsSeen, doneSeen>>

DoRender == \E close \in BOOLEAN : Render(close)

\* close: render(close=True), returned with True
Close ==
    /\ ret' = [Returned("close", Obs(0, 0), Fin(0), FALSE) EXCEPT !.figs = RenderFigs(TRUE)]
    /\ calls' = <<>>
    /\ rewarded' = NoRewards
    /\ resetFrom' = ""
    /\ UNCHANGED <<cfg, env, model, accepted, rewardsSeen, doneSeen>>

\* the agent stores its measurement in env.measurement between steps; within
\* an episode the vector it stores only gets longer
SetMeasurement(m) ==
    /\ ~sim_time_interval.none
    /\ m > measurement
    /\ measurement' = m
    /\ UNCHANGED <<cfg, sim_time_interval, failed, state, history, model, calls, ret, ghost>>

DoSetMeasurement == \E m \in 0 .. meas_max : SetMeasurement(m)

Next == DoReset \/ DoStep \/ DoRender \/ Close \/ DoSetMeasurement

Spec == Init /\ [][Next]_vars

\* the operations of an environment whose agent stores no measurement
NextRender == DoReset \/ DoStep \/ DoRender \/ Close

SpecRender == InitRender /\ [][NextRender]_vars

\* =================================================================== claims
\* where the calls named f stand in the call list cs
Positions(cs, f) == {i \in 1 .. Len(cs) : cs[i].f = f}

\* What a step of Next did is read off its result: ret names the last
\* operation, and that operation ran in this step unless the step is the
\* agent storing a measurement, the one step that lengthens the measurement.
MeasurementStored == measurement' > measurement

ResetCalled == ret'.op = "reset" /\ ~MeasurementStored

StepCalled == ret'.op = "step" /\ ~MeasurementStored

\* the last operation was a step call that returned
StepReturned == ret.op = "step" /\ ~ret.raised

\* ... after integrating
AcceptedStep == StepReturned /\ calls # <<>>

\* ... without integrating, the episode being over
PostTerminalStep == StepReturned /\ calls = <<>>

Terminal == ~sim_time_interval.none /\ is_done(failed, sim_time_interval, time_end)

\* C1: once a step call has returned done = true, every further step call
\* before the next reset returns the stored observation with reward -inf and
\* done = true, the same result as the post-terminal call before it, makes no
\* call on the FMU and leaves the interval, the failed flag, the measurement,
\* the history and the FMU as they were.
C1_PostTerminalStepsChangeNothing ==
    [][(doneSeen /\ ret'.op = "step" /\ DoStep) =>
          /\ ret' = Returned("step", state, NegInf, TRUE)
          /\ calls' = <<>>
          /\ UNCHANGED <<env, model>>
          /\ (PostTerminalStep => ret' = ret)]_vars

\* a post-terminal step call has been made after a step returned done
C1_Witness ==
    /\ doneSeen
    /\ PostTerminalStep
    /\ accepted > 0
    /\ ret.reward = NegInf
    /\ ret.obs = state

\* C2: with max_episode_steps = k >= 1, time_start >= 0 and a reward function
\* that returns the same finite r on every step, the j-th step call after
\* reset (all of them valid) reports reward r and returns done exactly when
\* j = k; no j-th call with j > k is accepted.
C2_DoneOnKthStep ==
    (/\ AcceptedStep
     /\ time_start >= 0
     /\ ~max_episode_steps.none
     /\ max_episode_steps.n >= 1
     /\ rewardsSeen.k = "fin")
    => /\ ret.reward = rewardsSeen
       /\ accepted <= max_episode_steps.n
       /\ (ret.done <=> accepted = max_episode_steps.n)

\* scenario A: the third of three steps with reward 1 returns done
C2_Witness ==
    /\ AcceptedStep
    /\ time_start >= 0
    /\ ~max_episode_steps.none
    /\ max_episode_steps.n = 3
    /\ accepted = 3
    /\ rewardsSeen = Fin(1)
    /\ ret.reward = Fin(1)
    /\ ret.done

\* the solver runs the next step call can meet
StepRuns == SolverRuns(model.x, sim_time_interval.t0, sim_time_interval.t1)

\* the step calls since the last reset all integrated and returned, and the
\* reward of the last one did not signal failure (an earlier one that did
\* would have ended the episode)
NoFailureSignalled == rewardsSeen # Stray /\ ~failed

C4_FailureRewardEndsEpisode ==
    [][/\ (StepCalled /\ rewarded' \in {NaN, NegInf}) =>
              (failed' /\ ~ret'.raised /\ ret'.reward = rewarded' /\ ret'.done)
       /\ (failed /\ StepCalled) => UNCHANGED sim_time_interval]_vars

\* scenario B: NaN on the second step
C4_Witness ==
    /\ AcceptedStep
    /\ accepted = 2
    /\ ret.reward = NaN
    /\ ret.done
    /\ failed

\* C5: a step call that returns done = true does not move the interval in
\* that call.
C5_DoneStepKeepsInterval ==
    [][(DoStep /\ ret'.op = "step" /\ ~ret'.raised /\ ret'.done)
          => UNCHANGED sim_time_interval]_vars

\* C6: a step call on which reward_fun returns None sets the failed flag and
\* returns a tuple with done = true; nothing is raised.
C6_NoneRewardEndsEpisode ==
    [][Integrates(NumInputs) =>
          \A sol \in StepRuns :
              (sol.status # "raise" /\ Step(NumInputs, sol, NoneReward))
              => (failed' /\ ~ret'.raised /\ ret'.done)]_vars

\* C7: a step call whose integration fails (the solver raises or reports
\* that it did not converge) raises nothing, returns done = true and leaves
\* the episode terminal.
C7_SolverFailureEndsEpisode ==
    [][Integrates(NumInputs) =>
          \A sol \in StepRuns : \A r \in Rewards \ {NoneReward} :
              (sol.status # "ok" /\ Step(NumInputs, sol, r))
              => (~ret'.raised /\ ret'.done /\ Terminal')]_vars

\* C8: after any operation the interval, once set, is one time_step_size
\* wide; reset sets it to (time_start, time_start + time_step_size), a step
\* call leaves it alone or adds time_step_size to both ends, and render,
\* close and the agent's measurement leave it alone.
C8_IntervalOneStepWide ==
    [][/\ ~sim_time_interval'.none =>
              sim_time_interval'.t1 - sim_time_interval'.t0 = time_step_size
       /\ ResetCalled =>
              sim_time_interval' = Interval(time_start, time_start + time_step_size)
       /\ StepCalled =>
              \/ sim_time_interval' = sim_time_interval
              \/ /\ ~sim_time_interval.none
                 /\ sim_time_interval' = Interval(sim_time_interval.t0 + time_step_size,
                                                  sim_time_interval.t1 + time_step_size)
       /\ (ret' = ret \/ ret'.op \in {"render", "close"}) =>
              ((DoRender \/ Close \/ DoSetMeasurement) => UNCHANGED sim_time_interval)]_vars

\* two steps have moved the interval by two step sizes
C8_Witness ==
    /\ AcceptedStep
    /\ accepted = 2
    /\ time_step_size = 2
    /\ sim_time_interval = Interval(time_start + 4, time_start + 6)

\* C9: in a running episode a step call with len(action) different from the
\* number of model inputs raises ValueError without a call on the FMU and
\* leaves the interval, the failed flag, the history, the stored observation,
\* the measurement and the FMU unchanged.
C9_ArityErrorBeforeOracle ==
    [][(~sim_time_interval.none /\ ~Terminal /\ StepCalled) =>
          \A alen \in (0 .. (NumInputs + 1)) \ {NumInputs} :
              Step(alen, CHOOSE sol \in StepRuns : TRUE, Fin(1))
              => /\ ret'.raised
                 /\ ret'.err = "ValueError"
                 /\ calls' = <<>>
                 /\ UNCHANGED <<env, model>>]_vars

\* an arity error in the middle of a running episode
C9_Witness ==
    /\ ret.op = "step"
    /\ ret.err = "ValueError"
    /\ accepted = 1
    /\ ~Terminal
    /\ calls = <<>>
    /\ Len(history) = 2

\* C10: reset returns an observation of NumOutputs values and leaves the
\* episode running unless max_episode_steps = 0.
C10_ResetLeavesRunning ==
    (ret.op = "reset" /\ ~ret.raised)
    => /\ ret.obs.n = NumOutputs
       /\ Terminal => (~max_episode_steps.none /\ max_episode_steps.n = 0)

\* C11: a reset that returns, whatever state it is called in (uninitialized,
\* running, terminal by time limit, terminal by failure), leaves failed =
\* false, the interval (time_start, time_start + time_step_size), an empty
\* measurement and a history of one record, the observation it returns: the
\* same stepping state and FMU state as the first reset of the environment
\* left.  A terminal state is left by reset only.
C11_ResetStartsEpisode ==
    [][/\ (ResetCalled /\ ~ret'.raised) =>
              /\ env' = <<Interval(time_start, time_start + time_step_size), FALSE,
                          ret'.obs, 0, <<NumOutputs>>>>
              /\ ret'.obs.n = NumOutputs
              /\ model'.x = ret'.obs.x
              /\ model'.inputs = 0
              /\ model'.start = time_start
              /\ accepted' = 0
              /\ doneSeen' = FALSE
              /\ Terminal' <=> is_done(FALSE, ResetInterval, time_end)
       /\ (Terminal /\ ~Terminal') => (ret'.op = "reset" /\ DoReset)]_vars

\* a reset has returned that was called in an episode ended by a failure
\* reward, and the episode it started is running
C11_Witness ==
    /\ ret.op = "reset"
    /\ ~ret.raised
    /\ resetFrom = "failure"
    /\ ~failed
    /\ ~Terminal
    /\ Len(history) = 1

\* C12: a step call on an environment that has never been reset raises
\* (TypeError, from reading the interval that is still None), whatever the
\* action, without a call on the FMU, the solver, the history or the reward
\* function and without changing the interval, the failed flag, the stored
\* observation, the measurement, the history or the FMU.
C12_StepBeforeResetRaises ==
    [][(sim_time_interval.none /\ ret'.op = "step" /\ DoStep) =>
          /\ ret'.raised
          /\ ret'.err = "TypeError"
          /\ calls' = <<>>
          /\ UNCHANGED <<env, model>>
          /\ ~failed'
          /\ history' = <<>>]_vars

\* a step call has raised on an environment that was never reset
C12_Witness ==
    /\ ret.op = "step"
    /\ ret.raised
    /\ ret.err = "TypeError"
    /\ sim_time_interval.none
    /\ calls = <<>>
    /\ history = <<>>
    /\ ~failed

\* C13: every step call made after reset that returns, a post-terminal one
\* included, returns an observation of NumOutputs + len(measurement) values.
C13_ObservationLength ==
    [][(~sim_time_interval.none /\ ret'.op = "step" /\ ~ret'.raised /\ DoStep)
          => ret'.obs.n = NumOutputs + measurement']_vars

\* C14: render and close, in any state and with any viz_mode, leave the
\* configuration, the interval, the failed flag, the stored observation, the
\* measurement, the history and the FMU as they were and call neither the
\* FMU nor the solver, the history or the reward function; render returns
\* figures only when called with close = true on an environment whose
\* viz_mode is "episode".
C14_RenderChangesNothing ==
    [][(ret'.op \in {"render", "close"} /\ (DoRender \/ Close)) =>
          /\ UNCHANGED <<cfg, env, model, accepted, rewardsSeen, doneSeen>>
          /\ calls' = <<>>
          /\ \A close \in BOOLEAN :
                 (Render(close) /\ ret'.figs.list # <<>>)
                 => (close /\ viz_mode = "episode")
          /\ (Close /\ ret'.figs.list # <<>>) => viz_mode = "episode"]_vars

\* render(close=True) has returned one figure per column in the middle of a
\* running episode
C14_Witness ==
    /\ ret.op = "render"
    /\ viz_mode = "episode"
    /\ Len(ret.figs.list) = NumOutputs
    /\ accepted > 0
    /\ ~Terminal
    /\ Len(history) = accepted + 1

\* the glob pattern pat matches the whole of name: the characters of name
\* can be dealt out to the characters of pat in order, any number of them
\* to a "*", one to a "?", and to any other character that one character
GlobMatches(pat, name) ==
    \E cut \in [0 .. Len(pat) -> 0 .. Len(name)] :
        /\ cut[0] = 0
        /\ cut[Len(pat)] = Len(name)
        /\ \A j \in 1 .. Len(pat) :
               IF pat[j] = "*" THEN cut[j] >= cut[j - 1]
               ELSE /\ cut[j] = cut[j - 1] + 1
                    /\ pat[j] # "?" => name[cut[j]] = pat[j]

\* the columns plotted by the figures of the last render or close, in order
RECURSIVE PlottedCols(_)
PlottedCols(figs) ==
    IF figs = <<>> THEN <<>> ELSE Head(figs).cols \o PlottedCols(Tail(figs))

\* the last operation was a render at close of a per-episode environment
RenderedAtClose ==
    /\ ret.op \in {"render", "close"}
    /\ ~ret.figs.none
    /\ viz_mode = "episode"

\* C15: rendering at close plots, in the order of the history columns,
\* exactly the columns whose whole name matches at least one of the glob
\* patterns of a viz_cols list, and every column when viz_cols is None; one
\* more figure is made per template of the list.
C15_GlobSelection ==
    RenderedAtClose =>
        /\ viz_cols.kind = "list" =>
               /\ PlottedCols(ret.figs.list)
                    = SelectSeq(model_output,
                                LAMBDA col : \E j \in 1 .. Len(viz_cols.patterns) :
                                                 GlobMatches(viz_cols.patterns[j], col))
               /\ Cardinality({k \in 1 .. Len(ret.figs.list) : ret.figs.list[k].tmpl # 0})
                    = viz_cols.tmpls
        /\ viz_cols.kind = "none" => PlottedCols(ret.figs.list) = model_output

\* scenario D: viz_cols = ["*.i"] over the columns a.i, a.v, b.i plots a.i
\* and b.i
C15_Witness ==
    /\ RenderedAtClose
    /\ ret.op = "close"
    /\ viz_cols = PatternList(<< <<"*", ".", "i">> >>, 0)
    /\ SubSeq(model_output, 1, 3) = << <<"a", ".", "i">>, <<"a", ".", "v">>, <<"b", ".", "i">> >>
    /\ SelectSeq(PlottedCols(ret.figs.list), LAMBDA col : col \in {model_output[j] : j \in 1 .. 3})
         = << <<"a", ".", "i">>, <<"b", ".", "i">> >>
    /\ Len(history) > 1

\* C16: after a step call that integrated and evaluated the reward, failed
\* is set exactly when the reward was NaN or -inf (a reward of None raises
\* and leaves it unset); a step whose reward was +inf has returned that
\* reward with failed = false, and done exactly when the end of the interval
\* is past time_end.
C16_PlusInfIsNoFailure ==
    (ret.op = "step" /\ rewarded # NoRewards) =>
        /\ failed <=> rewarded \in {NaN, NegInf}
        /\ rewarded = PosInf =>
               /\ ~ret.raised
               /\ ret.reward = PosInf
               /\ ~failed
               /\ ret.done <=> (~time_end.inf /\ Abs(sim_time_interval.t1) > time_end.v)

\* the second of two steps with reward +inf has returned done = false
C16_Witness ==
    /\ AcceptedStep
    /\ accepted = 2
    /\ rewardsSeen = PosInf
    /\ ret.reward = PosInf
    /\ ~ret.done
    /\ ~failed
    /\ ~Terminal

\* C17: the calls of an accepted step come in this order: model.set with the
\* action; one evaluation of each parameter of the schedule at the start t0
\* of the interval the step integrates, and one model.set of their values;
\* solve_ivp over (t0, t1), the interval the step was called with (the step
\* has moved it on since), with every derivative query inside it;
\* history.append of the observation returned, which is the last record of
\* the history; reward_fun on that observation.
C17_StepEventOrder ==
    AcceptedStep =>
        LET cs == calls
            params == Positions(cs, "param")
            solve == NumParams + 4
            t0 == cs[solve].a
            t1 == cs[solve].b
        IN  /\ cs[1] = Call("set_inputs", NumInputs)
            /\ Positions(cs, "set_inputs") = {1}
            /\ params = 2 .. (NumParams + 1)
            /\ \A i \in params : cs[i].a = t0
            /\ \A q \in model_parameters :
                   Cardinality({i \in params : cs[i].b = q}) = 1
            /\ Positions(cs, "set_params") = {NumParams + 2}
            /\ Positions(cs, "solve_ivp") = {solve}
            /\ Interval(t0 + time_step_size, t1 + time_step_size) = sim_time_interval
            /\ \A i \in Positions(cs, "get_derivatives")
                          \cup Positions(cs, "set_time")
                          \cup Positions(cs, "get_real") :
                   solve < i /\ i < Len(cs) - 1
            /\ \A i \in Positions(cs, "set_time") : t0 <= cs[i].a /\ cs[i].a <= t1
            /\ Positions(cs, "history.append") = {Len(cs) - 1}
            /\ Positions(cs, "reward_fun") = {Len(cs)}
            /\ cs[Len(cs) - 1].a = ret.obs.n
            /\ cs[Len(cs)].a = ret.obs.n
            /\ Len(history) >= accepted
            /\ history[Len(history)] = ret.obs.n

\* the second step of an episode has evaluated the schedule at the start of
\* the second interval
C17_Witness ==
    /\ AcceptedStep
    /\ accepted = 2
    /\ time_start = 1
    /\ calls[2] = Call2("param", time_start + time_step_size, 1)
    /\ calls[Len(calls)].f = "reward_fun"
    /\ Len(history) = 3

\* C18: the calls of reset start with model.reset(); then come the
\* setup_experiment calls, enter_initialization_mode and
\* exit_initialization_mode once each, at least one round of
\* enter_event_mode, event_update, get_event_info, the last get_event_info
\* being the one that reports no further event, and
\* enter_continuous_time_mode exactly once; the output indices are looked up
\* and continuous mode is entered before the first read of the continuous
\* states, solver run or derivative query.  Whatever the number of rounds,
\* reset goes on to the first integration and returns unless the solver
\* raises.
C18_ResetLifecycleOrder ==
    ret.op = "reset" =>
        LET cs == calls
            setups == Positions(cs, "setup_experiment")
            updates == Positions(cs, "event_update")
            enterInit == CHOOSE i \in Positions(cs, "enter_initialization_mode") : TRUE
            enterCont == CHOOSE i \in Positions(cs, "enter_continuous_time_mode") : TRUE
            valueref == CHOOSE i \in Positions(cs, "get_variable_valueref") : TRUE
        IN  /\ Positions(cs, "reset") = {1}
            /\ setups # {}
            /\ \A i \in setups : 1 < i /\ i < enterInit
            /\ Positions(cs, "enter_initialization_mode") = {enterInit}
            /\ Positions(cs, "exit_initialization_mode") = {enterInit + 1}
            /\ updates # {}
            /\ \A i \in updates :
                   /\ enterInit + 1 < i - 1
                   /\ cs[i - 1].f = "enter_event_mode"
                   /\ cs[i + 1].f = "get_event_info"
                   /\ i + 1 < enterCont
            /\ Positions(cs, "enter_event_mode") = {i - 1 : i \in updates}
            /\ Positions(cs, "enter_continuous_time_mode") = {enterCont}
            /\ cs[enterCont - 1].f = "get_event_info"
            /\ Positions(cs, "get_variable_valueref") = {valueref}
            /\ Positions(cs, "get_derivatives") # {}
            /\ \A i \in Positions(cs, "get_derivatives")
                          \cup Positions(cs, "solve_ivp")
                          \cup Positions(cs, "get_continuous_states")
                          \cup Positions(cs, "set_continuous_states") :
                   enterCont < i /\ valueref < i
            /\ ret.raised <=> Positions(cs, "get_real") = {}

\* a reset in a running episode has gone through two rounds of events
C18_Witness ==
    /\ ret.op = "reset"
    /\ ~ret.raised
    /\ resetFrom = "running"
    /\ Cardinality(Positions(calls, "event_update")) = 2
    /\ calls[1].f = "reset"
    /\ calls[Len(calls)].f = "history.append"

\* C19: every setup_experiment call that reset makes is given start_time =
\* time_start.
C19_SetupAtTimeStart ==
    [][(ret'.op = "reset" /\ DoReset) =>
          \A i \in Positions(calls', "setup_experiment") : calls'[i].a = time_start]_vars

\* C20: after every integration that returns, in reset or in step, the
\* continuous state of the FMU is the solution at the end t1 of the interval
\* handed to the solver (the FMU integrates dx/dt = 1, so that this is the
\* initial value plus t1 - t0), whatever trial points the derivative callback
\* stored in the FMU; the initial value is the state read from the FMU
\* before the solver runs, and the outputs are read after the last write of
\* the continuous state.
C20_CommitAtIntervalEnd ==
    [][(ret'.op \in {"reset", "step"} /\ Positions(calls', "get_real") # {}
        /\ (DoReset \/ DoStep)) =>
          LET cs == calls'
              read == CHOOSE i \in Positions(cs, "get_continuous_states") : TRUE
              solve == CHOOSE i \in Positions(cs, "solve_ivp") : TRUE
              writes == Positions(cs, "set_continuous_states")
              commit == CHOOSE i \in writes : \A j \in writes : j <= i
          IN  /\ Positions(cs, "get_continuous_states") = {read}
              /\ read < solve
              /\ \A i \in writes : solve < i
              /\ cs[read].a = IF ret'.op = "reset" THEN 0 ELSE model.x
              /\ Positions(cs, "get_real") = {commit + 1}
              /\ model'.x = cs[commit].a
              /\ model'.x = cs[read].a + (cs[solve].b - cs[solve].a)]_vars

\* the interval handed to the solver by the last operation
Integrated ==
    LET i == CHOOSE j \in Positions(calls, "solve_ivp") : TRUE
    IN  Interval(calls[i].a, calls[i].b)

\* the j-th time slice of an episode, counted from 0
Slice(j) == Interval(time_start + j * time_step_size,
                     time_start + (j + 1) * time_step_size)

\* C21: the integrations of an episode cover consecutive time slices: the
\* one reset performs is over (time_start, time_start + time_step_size), and
\* each accepted step integrates the slice that starts where the integration
\* before it ended, so that in an episode whose reset returned the j-th
\* accepted step integrates the j-th slice after the one of reset.
C21_ConsecutiveSlices ==
    /\ (ret.op = "reset" /\ ~ret.raised) => Integrated = Slice(0)
    /\ (AcceptedStep /\ Len(history) = accepted + 1) => Integrated = Slice(accepted)

\* self._state holds an observation: some reset call has returned
EpisodeStarted == state.n = NumOutputs

\* a step call that integrated and read the outputs
StepIntegrated == StepCalled /\ Positions(calls', "get_real") # {}

\* C22: once reset has returned, the history holds one record for the
\* observation of the last reset and one for each step call accepted since;
\* an accepted step call adds exactly one record at the end, a step call
\* that is not accepted (post-terminal or wrong arity), a render and a close
\* leave the history as it is, and only reset makes it shorter.
C22_HistoryCount ==
    [][/\ EpisodeStarted' => Len(history') = 1 + accepted'
       /\ StepIntegrated =>
              /\ accepted' = accepted + 1
              /\ Len(history') = Len(history) + 1
              /\ SubSeq(history', 1, Len(history)) = history
       /\ (StepCalled /\ ~StepIntegrated) => UNCHANGED <<history, accepted>>
       /\ (ret'.op \in {"render", "close"}) => UNCHANGED <<history, accepted>>
       /\ MeasurementStored => UNCHANGED <<history, accepted>>
       /\ (Len(history') < Len(history)) => ResetCalled]_vars

====
